---- MODULE Spec2Model ----
(***************************************************************************)
(* State-machine model of the simulation viewer src/Graphics/script.js:    *)
(* the state cache, the three asynchronous handlers (start/step/reset),    *)
(* the init bootstrap, and the renderers they call.                        *)
(*                                                                         *)
(* JavaScript runs the handlers on one thread; a handler gives up control  *)
(* only at an await of a network call.  Every action below is the code run *)
(* between two such suspension points (a click up to the first await, or   *)
(* the settling of one awaited promise up to the next await or the         *)
(* handler's return).                                                      *)
(*                                                                         *)
(* Strings of the source written in Chinese are given ASCII stand-ins:     *)
(*   speak / startSpeak / endSpeak / continueSpeak   dialogue actions      *)
(*   move / startMove / endMove                      movement actions      *)
(*   itemInteract                                    targeted fallback     *)
(*   args keys: target, content, direction, inner                          *)
(***************************************************************************)
EXTENDS Integers, Sequences, FiniteSets, TLC

VARIABLES
    state,          \* the global state object (script.js 5-13, plus gridMaxY)
    startBtn,       \* [disabled, textContent, finished]
    stepBtn,        \* [disabled]
    resetBtn,       \* [disabled]
    turnCount,      \* textContent of the turn display
    eventLog,       \* children of the event log view, in order
    mapGrid,        \* [cells, items, agents]: cells in order, item containers, attached agent elements
    agentElements,  \* registry: character name -> element id
    elements,       \* element id -> [left, top, title] of the live agent elements
    nextElement,    \* id the next document.createElement for an agent returns
    inv,            \* the pending handler invocations, in the order they were started
    returned,       \* the invocation that returned last, as it was when it returned
    clicks          \* clicks dispatched to a handler so far

vars == <<state, startBtn, stepBtn, resetBtn, turnCount, eventLog, mapGrid,
          agentElements, elements, nextElement, inv, returned, clicks>>

view == <<turnCount, eventLog, mapGrid, agentElements, elements, nextElement>>

----------------------------------------------------------------------------
(* Bounds *)

\* clicks the user makes in one run
MaxClicks == 3

----------------------------------------------------------------------------
(* Program constants *)

CELL_SIZE == 200
CELL_GAP == 10
GRID_PADDING == 20
spacing == 40

\* the value of a property that was never assigned (typeof === 'undefined')
Undefined == -1

\* an absent or empty string: falsy in every test the code makes
None == ""

----------------------------------------------------------------------------
(* Small helpers *)

Max(a, b) == IF a >= b THEN a ELSE b

RECURSIVE SelectSeqBy(_, _, _)
\* s.filter(x => x[field] = v), order kept
SelectSeqBy(s, field, v) ==
    IF s = <<>> THEN <<>>
    ELSE IF Head(s)[field] = v
         THEN <<Head(s)>> \o SelectSeqBy(Tail(s), field, v)
         ELSE SelectSeqBy(Tail(s), field, v)

\* index of the first element of s whose name is n (findIndex, 0-based), -1 if none
FindIndex(s, n) ==
    IF \E i \in 1..Len(s) : s[i].name = n
    THEN (CHOOSE i \in 1..Len(s) :
              s[i].name = n /\ \A j \in 1..(i - 1) : s[j].name # n) - 1
    ELSE -1

\* f with key k set to v (an object property assignment)
Put(f, k, v) == [x \in DOMAIN f \cup {k} |-> IF x = k THEN v ELSE f[x]]

\* f without the keys outside keep (delete)
Restrict(f, keep) == [x \in DOMAIN f \cap keep |-> f[x]]

----------------------------------------------------------------------------
(* The world map: the entries of the map object, in insertion order.       *)
(* state.map[name] is the coordinate pair of the entry called name.        *)

MapNames(map) == {map[i].name : i \in 1..Len(map)}

HasLocation(map, name) == name \in MapNames(map)

Coords(map, name) ==
    LET i == CHOOSE j \in 1..Len(map) : map[j].name = name
    IN  <<map[i].x, map[i].y>>

RECURSIVE MaxOf(_, _)
\* the forEach of Math.max over one coordinate, starting from 0
MaxOf(map, c) ==
    IF map = <<>> THEN 0 ELSE Max(map[Len(map)][c], MaxOf(SubSeq(map, 1, Len(map) - 1), c))

----------------------------------------------------------------------------
(* Design configuration (script.js 27-39) *)

agentColors(name, fallback) ==
    CASE name = "Zhang" -> "#4CAF50"
      [] name = "Hong"  -> "#E91E63"
      [] OTHER          -> fallback

itemColors(name) ==
    CASE name = "clock"     -> "#FF9800"
      [] name = "tv"        -> "#2196F3"
      [] name = "sanitizer" -> "#9C27B0"
      [] OTHER              -> "#607D8B"

----------------------------------------------------------------------------
(* The renderers work on the document D: the state object together with    *)
(* the view, D = [state, turnCount, eventLog, mapGrid, agentElements,      *)
(* elements, nextElement].                                                 *)

\* charactersByLocation[location]: the roster's characters at a location, in roster order
charactersByLocation(characters, location) == SelectSeqBy(characters, "location", location)

\* the group spread from the cell's left edge instead of around its centre
GroupOffset_FromLeft(index, count) == index * spacing

\* horizontal offset of the character at a 0-based index of a group of count
\* (index - (count - 1) / 2) * spacing, an integer since spacing is even
GroupOffset(index, count) ==
    IF count > 1 THEN ((2 * index - (count - 1)) * spacing) \div 2 ELSE 0

\* maxY used for the top offset: state.gridMaxY, or computed locally when undefined
PositionMaxY(st) ==
    IF st.gridMaxY = Undefined THEN MaxOf(st.map, "y") ELSE st.gridMaxY

\* left/top of a character with a resolved location
AgentLeft(st, char) ==
    LET coords == Coords(st.map, char.location)
        group  == charactersByLocation(st.characters, char.location)
    IN  GRID_PADDING + coords[1] * (CELL_SIZE + CELL_GAP)
          + GroupOffset(FindIndex(group, char.name), Len(group))

AgentTop(st, char) ==
    LET coords == Coords(st.map, char.location)
    IN  GRID_PADDING + (PositionMaxY(st) - coords[2]) * (CELL_SIZE + CELL_GAP)

\* step 2 left out: nothing is ever destroyed
RemovedAgents_None(registry, characters) == {}

\* step 2 of updateAgentPositions: the names whose elements are destroyed
RemovedAgents(registry, characters) ==
    {n \in DOMAIN registry : \A i \in 1..Len(characters) : characters[i].name # n}

\* PlaceAgent that builds a new element on every poll
PlaceAgent_AlwaysCreates(D, char) ==
    IF ~HasLocation(D.state.map, char.location) THEN D
    ELSE
      LET id == D.nextElement
          el == [left  |-> AgentLeft(D.state, char),
                 top   |-> AgentTop(D.state, char),
                 title |-> <<char.name, IF char.status = None THEN "IDLE" ELSE char.status>>,
                 backgroundColor |-> agentColors(char.name, "#7f8c8d")]
      IN  [D EXCEPT !.agentElements = Put(@, char.name, id),
                    !.elements      = Put(@, id, el),
                    !.mapGrid.agents = @ \cup {id},
                    !.nextElement   = @ + 1]

\* PlaceAgent without the skip: an unknown location is drawn at the grid's origin
PlaceAgent_PlacesUnknown(D, char) ==
    LET exists == char.name \in DOMAIN D.agentElements
        id     == IF exists THEN D.agentElements[char.name] ELSE D.nextElement
        known  == HasLocation(D.state.map, char.location)
        el     == [left  |-> IF known THEN AgentLeft(D.state, char) ELSE GRID_PADDING,
                   top   |-> IF known THEN AgentTop(D.state, char) ELSE GRID_PADDING,
                   title |-> <<char.name, IF char.status = None THEN "IDLE" ELSE char.status>>,
                   backgroundColor |-> agentColors(char.name, "#7f8c8d")]
    IN  [D EXCEPT !.agentElements = Put(@, char.name, id),
                  !.elements      = Put(@, id, el),
                  !.mapGrid.agents = @ \cup {id},
                  !.nextElement   = IF exists THEN @ ELSE @ + 1]

\* the body of the forEach of step 4, for one character
PlaceAgent(D, char) ==
    IF ~HasLocation(D.state.map, char.location) THEN D
    ELSE
      LET exists == char.name \in DOMAIN D.agentElements
          id     == IF exists THEN D.agentElements[char.name] ELSE D.nextElement
          el     == [left  |-> AgentLeft(D.state, char),
                     top   |-> AgentTop(D.state, char),
                     title |-> <<char.name, IF char.status = None THEN "IDLE" ELSE char.status>>,
                     backgroundColor |-> agentColors(char.name, "#7f8c8d")]
      IN  [D EXCEPT !.agentElements = Put(@, char.name, id),
                    !.elements      = Put(@, id, el),
                    !.mapGrid.agents = @ \cup {id},
                    !.nextElement   = IF exists THEN @ ELSE @ + 1]

RECURSIVE PlaceAgents(_, _)
PlaceAgents(D, chars) ==
    IF chars = <<>> THEN D ELSE PlaceAgents(PlaceAgent(D, Head(chars)), Tail(chars))

updateAgentPositions(D) ==
    LET removed    == RemovedAgents(D.agentElements, D.state.characters)
        removedIds == {D.agentElements[n] : n \in removed}
        D1 == [D EXCEPT !.agentElements  = Restrict(@, DOMAIN @ \ removed),
                        !.elements       = Restrict(@, DOMAIN @ \ removedIds),
                        !.mapGrid.agents = @ \ removedIds]
    IN  PlaceAgents(D1, D.state.characters)

----------------------------------------------------------------------------
(* renderItems *)

RECURSIVE ItemLocations(_, _)
\* the keys of itemsByLocation in insertion order
ItemLocations(items, seen) ==
    IF items = <<>> THEN <<>>
    ELSE IF Head(items).location \in seen
         THEN ItemLocations(Tail(items), seen)
         ELSE <<Head(items).location>>
                \o ItemLocations(Tail(items), seen \cup {Head(items).location})

ItemToken(item) == [title |-> item.name, backgroundColor |-> itemColors(item.name)]

RECURSIVE RenderItemGroups(_, _, _)
RenderItemGroups(D, locs, k) ==
    IF k > Len(locs) THEN D
    ELSE
      LET loc == locs[k]
      IN  IF ~HasLocation(D.state.map, loc) THEN RenderItemGroups(D, locs, k + 1)
          ELSE
            LET coords == Coords(D.state.map, loc)
                group  == SelectSeqBy(D.state.items, "location", loc)
            IN  IF coords \notin DOMAIN D.mapGrid.items
                THEN RenderItemGroups(D, locs, k + 1)
                ELSE RenderItemGroups(
                       [D EXCEPT !.mapGrid.items[coords] =
                            [i \in 1..Len(group) |-> ItemToken(group[i])]],
                       locs, k + 1)

renderItems(D) == RenderItemGroups(D, ItemLocations(D.state.items, {}), 1)

----------------------------------------------------------------------------
(* renderMap *)

\* gridLayout[`x,y`]: the name of the last entry at a coordinate, None when there is none
gridLayout(map, x, y) ==
    LET at == {i \in 1..Len(map) : map[i].x = x /\ map[i].y = y}
    IN  IF at = {} THEN None
        ELSE map[CHOOSE i \in at : \A j \in at : j <= i].name

\* MapCells with the outer loop counting y upwards
MapCells_RowsAscending(map) ==
    LET maxX == MaxOf(map, "x")
        maxY == MaxOf(map, "y")
    IN  [k \in 1..((maxX + 1) * (maxY + 1)) |->
            LET x == (k - 1) % (maxX + 1)
                y == (k - 1) \div (maxX + 1)
                locationName == gridLayout(map, x, y)
            IN  IF locationName # None
                THEN [x |-> x, y |-> y, name |-> locationName, empty |-> FALSE]
                ELSE [x |-> x, y |-> y, name |-> "-", empty |-> TRUE]]

\* the cells appended by the two nested loops: y from maxY down to 0, x from 0 to maxX
MapCells(map) ==
    LET maxX == MaxOf(map, "x")
        maxY == MaxOf(map, "y")
    IN  [k \in 1..((maxX + 1) * (maxY + 1)) |->
            LET x == (k - 1) % (maxX + 1)
                y == maxY - ((k - 1) \div (maxX + 1))
                locationName == gridLayout(map, x, y)
            IN  IF locationName # None
                THEN [x |-> x, y |-> y, name |-> locationName, empty |-> FALSE]
                ELSE [x |-> x, y |-> y, name |-> "-", empty |-> TRUE]]

\* the coordinates of the cells that carry an items-x-y container
ItemContainers(cells) ==
    {<<cells[k].x, cells[k].y>> : k \in {j \in 1..Len(cells) : ~cells[j].empty}}

renderMap(D) ==
    LET wiped == [D EXCEPT !.mapGrid.cells = <<>>,
                           !.mapGrid.items = <<>>,
                           !.mapGrid.agents = {}]
        map   == D.state.map
    IN  IF Len(map) = 0 THEN wiped
        ELSE
          LET cells == MapCells(map)
              built == [wiped EXCEPT
                          !.mapGrid.columns = MaxOf(map, "x") + 1,
                          !.mapGrid.rows    = MaxOf(map, "y") + 1,
                          !.mapGrid.cells   = cells,
                          !.mapGrid.items   = [c \in ItemContainers(cells) |-> <<>>],
                          !.state.gridMaxY  = MaxOf(map, "y")]
          IN  updateAgentPositions(renderItems(built))

----------------------------------------------------------------------------
(* renderEventLog.  An event is [actor, action, args, new_location,        *)
(* target_override] with args = [target, content, direction, inner]; a     *)
(* field that is absent holds None.  A description is the sequence of the  *)
(* pieces the template string concatenates.                                *)

DialogueActions == {"speak", "startSpeak", "endSpeak", "continueSpeak"}
MoveActions == {"move", "startMove", "endMove"}

\* a || b on strings
Or(a, b) == IF a # None THEN a ELSE b

\* ${value} in a template string
Interpolate(value) == IF value = None THEN "undefined" ELSE value

EventClass(event) ==
    IF event.action \in DialogueActions THEN "type-dialogue"
    ELSE IF event.action \in MoveActions THEN "type-move"
    ELSE "type-system"

\* the message content shown for every dialogue action, not only for speak
actionDescription_ContentAlways(event) ==
    IF event.action \in DialogueActions /\ event.args.content # None
    THEN <<event.action, "->", Interpolate(Or(event.args.target, event.target_override)),
           ":", event.args.content>>
    ELSE <<event.action>>

actionDescription(event) ==
    LET args == event.args
    IN  IF event.action \in DialogueActions THEN
            LET target  == Or(args.target, event.target_override)
                message == args.content
            IN  IF message # None /\ event.action = "speak"
                THEN <<event.action, "->", Interpolate(target), ":", message>>
                ELSE IF target # None THEN <<event.action, "->", target>>
                ELSE <<event.action>>
        ELSE IF event.action \in MoveActions THEN
            LET destination == Or(event.new_location, args.direction)
            IN  IF destination # None THEN <<event.action, "->", destination>>
                ELSE <<event.action>>
        ELSE IF event.action = "itemInteract" /\ args.target # None
            THEN <<event.action, "->", args.target>>
        ELSE <<event.action>>

EventItem(event) ==
    LET actor == Or(event.actor, "System")
    IN  [className  |-> EventClass(event),
         actor      |-> actor,
         actorColor |-> agentColors(actor, "#666"),
         body       |-> actionDescription(event),
         concept    |-> event.args.inner]

renderEventLog(D) ==
    [D EXCEPT !.eventLog = [i \in 1..Len(D.state.events) |-> EventItem(D.state.events[i])]]

updateUI(D) ==
    renderEventLog(updateAgentPositions([D EXCEPT !.turnCount = D.state.turn]))

----------------------------------------------------------------------------
(* fetchState.  A decoded response body is [has, map, characters, items,   *)
(* events, turn]: has is the set of fields that are present and truthy.    *)

Field(data, f, default) == IF f \in data.has THEN data[f] ELSE default

\* ApplySnapshot that merges: a missing field keeps the cached value
ApplySnapshot_Merges(st, data) ==
    [st EXCEPT !.map        = Field(data, "map", @),
               !.characters = Field(data, "characters", @),
               !.items      = Field(data, "items", @),
               !.events     = Field(data, "events", @),
               !.turn       = Field(data, "turn", @)]

\* lines 64-68: the five assignments, run without a suspension point between them
ApplySnapshot(st, data) ==
    [st EXCEPT !.map        = Field(data, "map", <<>>),
               !.characters = Field(data, "characters", <<>>),
               !.items      = Field(data, "items", <<>>),
               !.events     = Field(data, "events", <<>>),
               !.turn       = Field(data, "turn", 0)]

\* the try block of fetchState once the body is decoded
FetchStateSuccess(D, data) == updateUI([D EXCEPT !.state = ApplySnapshot(D.state, data)])

\* a catch block that falls back to an empty snapshot
FetchStateFailure_Clears(D) ==
    updateUI([D EXCEPT !.state = ApplySnapshot(D.state, [has |-> {}])])

\* the catch block of fetchState: logs, and touches nothing
FetchStateFailure(D) == D

----------------------------------------------------------------------------
(* The page P: the state object, the controls and the view together.  The  *)
(* renderers above read and write the fields of P they name.               *)

Page ==
    [state |-> state, startBtn |-> startBtn, stepBtn |-> stepBtn, resetBtn |-> resetBtn,
     turnCount |-> turnCount, eventLog |-> eventLog, mapGrid |-> mapGrid,
     agentElements |-> agentElements, elements |-> elements, nextElement |-> nextElement]

SetPage(P) ==
    /\ state' = P.state
    /\ startBtn' = P.startBtn
    /\ stepBtn' = P.stepBtn
    /\ resetBtn' = P.resetBtn
    /\ turnCount' = P.turnCount
    /\ eventLog' = P.eventLog
    /\ mapGrid' = P.mapGrid
    /\ agentElements' = P.agentElements
    /\ elements' = P.elements
    /\ nextElement' = P.nextElement

----------------------------------------------------------------------------
(* The code of the handlers between their suspension points *)

\* init after its fetchState has settled: renderMap(); state.initialized = true
initTail(P) == [renderMap(P) EXCEPT !.state.initialized = TRUE]

\* stepTail with the else branch of the termination check left out
stepTail_NeverRearms(P, complete) ==
    IF complete
    THEN [P EXCEPT !.state.running = FALSE,
                   !.startBtn = [disabled |-> TRUE, textContent |-> "Complete", finished |-> TRUE],
                   !.stepBtn.disabled = TRUE]
    ELSE P

\* stepSimulation, lines 90-99: the termination check
stepTail(P, complete) ==
    IF complete
    THEN [P EXCEPT !.state.running = FALSE,
                   !.startBtn = [disabled |-> TRUE, textContent |-> "Complete", finished |-> TRUE],
                   !.stepBtn.disabled = TRUE]
    ELSE [P EXCEPT !.stepBtn.disabled = FALSE]

\* stepCatch that only logs
stepCatch_LeavesDisabled(P) == P

\* stepSimulation, lines 100-103: the catch block
stepCatch(P) == [P EXCEPT !.stepBtn.disabled = FALSE]

\* resetTail without the wipe of the event log
resetTail_KeepsLog(P) ==
    [P EXCEPT !.state.running = FALSE,
              !.startBtn = [disabled |-> FALSE, textContent |-> "Start", finished |-> FALSE],
              !.stepBtn.disabled = TRUE,
              !.resetBtn.disabled = TRUE]

\* resetSimulation, lines 115-123: after its fetchState has settled
resetTail(P) ==
    [P EXCEPT !.state.running = FALSE,
              !.startBtn = [disabled |-> FALSE, textContent |-> "Start", finished |-> FALSE],
              !.stepBtn.disabled = TRUE,
              !.resetBtn.disabled = TRUE,
              !.eventLog = <<>>]

\* resetSimulation, lines 124-126: the catch block
resetCatch(P) == P

\* the start click handler up to its call of stepSimulation (lines 389-394)
startHead(P) ==
    [P EXCEPT !.state.running = TRUE,
              !.startBtn.textContent = "Running",
              !.startBtn.disabled = TRUE,
              !.stepBtn.disabled = FALSE,
              !.resetBtn.disabled = FALSE]

\* stepSimulation up to its first await (line 82)
stepHead(P) == [P EXCEPT !.stepBtn.disabled = TRUE]

----------------------------------------------------------------------------
(* Handler invocations.  pc is the await the invocation is suspended at:   *)
(*   step_fetch   await fetch('/api/step')        step_json   its .json()  *)
(*   reset_fetch  await fetch('/api/reset')                                *)
(*   state_fetch  await fetch('/api/state')       state_json  its .json()  *)
(* fetches counts the calls of fetchState it made, fetched tells how the   *)
(* last one settled, caught whether it ended in its own catch block.       *)
(* History of the state fetches: issued is the rank of a pending state     *)
(* fetch among the pending state fetches, by the moment fetch('/api/state') *)
(* was called; newerTurn is, for a pending state fetch, the turn written   *)
(* to the cache by the latest-issued later fetch that has been answered.   *)

NewInvocation(kind, pc) ==
    [kind |-> kind, pc |-> pc, success |-> FALSE, complete |-> FALSE,
     fetches |-> IF pc = "state_fetch" THEN 1 ELSE 0,
     fetched |-> "none", caught |-> FALSE,
     issued |-> IF pc = "state_fetch" THEN 1 ELSE 0,
     newerTurn |-> Undefined]

IsStep(r) == r.kind \in {"start", "step"}

\* the caller of fetchState resumes: the rest of init, stepSimulation or resetSimulation
Resume(r, P) ==
    CASE r.kind = "init"  -> initTail(P)
      [] r.kind = "reset" -> resetTail(P)
      [] OTHER            -> stepTail(P, r.complete)

----------------------------------------------------------------------------
(* What the server may answer *)

StepResponses == [success : BOOLEAN, complete : BOOLEAN]

Lobby  == [name |-> "Lobby",  x |-> 0, y |-> 0]
Office == [name |-> "Office", x |-> 1, y |-> 1]
Roof   == [name |-> "Roof",   x |-> 0, y |-> 2]

NoArgs == [target |-> None, content |-> None, direction |-> None, inner |-> None]

Snapshots ==
    { [has |-> {"map", "characters", "items", "events"},
       map |-> <<Lobby, Office>>,
       characters |-> << [name |-> "Zhang", location |-> "Lobby", status |-> None],
                         [name |-> "Hong",  location |-> "Lobby", status |-> None] >>,
       items |-> << [name |-> "clock", location |-> "Office"] >>,
       events |-> <<>>,
       turn |-> 0],
      [has |-> {"map", "characters", "items", "events", "turn"},
       map |-> <<Lobby, Office>>,
       characters |-> << [name |-> "Hong",  location |-> "Lobby",  status |-> "talking"],
                         [name |-> "Zhang", location |-> "Office", status |-> None] >>,
       items |-> << [name |-> "clock", location |-> "Office"] >>,
       events |-> << [actor |-> "Hong", action |-> "speak",
                      args |-> [NoArgs EXCEPT !.target = "Zhang", !.content = "hi"],
                      new_location |-> None, target_override |-> None] >>,
       turn |-> 1],
      [has |-> {"map", "characters", "items", "events", "turn"},
       map |-> <<Lobby, Roof>>,
       characters |-> << [name |-> "Zhang", location |-> "Roof",   status |-> "moving"],
                         [name |-> "Li",    location |-> "Cellar", status |-> None] >>,
       items |-> << [name |-> "clock", location |-> "Office"],
                    [name |-> "tv",    location |-> "Lobby"] >>,
       events |-> << [actor |-> "Zhang", action |-> "move",
                      args |-> [NoArgs EXCEPT !.direction = "north"],
                      new_location |-> "Roof", target_override |-> None] >>,
       turn |-> 2],
      [has |-> {"turn"},
       map |-> <<>>, characters |-> <<>>, items |-> <<>>, events |-> <<>>,
       turn |-> 3] }

----------------------------------------------------------------------------
(* Initial state: the script has run and DOMContentLoaded has called init, *)
(* which is suspended at the fetch of its fetchState.                      *)

\* the controls and views as the page markup gives them
PageMarkup ==
    [startBtn  |-> [disabled |-> FALSE, textContent |-> "Start", finished |-> FALSE],
     stepBtn   |-> [disabled |-> TRUE],
     resetBtn  |-> [disabled |-> TRUE],
     turnCount |-> 0,
     eventLog  |-> <<>>,
     mapGrid   |-> [columns |-> 0, rows |-> 0, cells |-> <<>>, items |-> <<>>, agents |-> {}]]

InitialState ==
    [map |-> <<>>, characters |-> <<>>, items |-> <<>>, events |-> <<>>, turn |-> 0,
     running |-> FALSE, initialized |-> FALSE, gridMaxY |-> Undefined]

Init ==
    /\ state = InitialState
    /\ startBtn = PageMarkup.startBtn
    /\ stepBtn = PageMarkup.stepBtn
    /\ resetBtn = PageMarkup.resetBtn
    /\ turnCount = PageMarkup.turnCount
    /\ eventLog = PageMarkup.eventLog
    /\ mapGrid = PageMarkup.mapGrid
    /\ agentElements = <<>>
    /\ elements = <<>>
    /\ nextElement = 1
    /\ inv = << NewInvocation("init", "state_fetch") >>
    /\ returned = NewInvocation("none", "done")
    /\ clicks = 0

----------------------------------------------------------------------------
(* Clicks.  A disabled button dispatches no click. *)

ClicksLeft == clicks < MaxClicks

\* the rank of a state fetch issued now: after every pending state fetch
IssueNumber ==
    Cardinality({k \in 1..Len(inv) : inv[k].pc \in {"state_fetch", "state_json"}}) + 1

\* a pending invocation r after the state fetch of b has settled: the later
\* fetches move up one rank
Settled(r, b) ==
    IF b.issued > 0 /\ r.issued > b.issued THEN [r EXCEPT !.issued = @ - 1] ELSE r

\* a pending invocation r after the response of the state fetch of b wrote
\* turn to the cache.  A fetch b that is itself superseded was overlapped by
\* a later fetch that has marked every fetch older than b already.
Superseded(r, b, turn) ==
    IF /\ r.pc \in {"state_fetch", "state_json"}
       /\ r.issued < b.issued /\ b.newerTurn = Undefined
    THEN [r EXCEPT !.newerTurn = turn]
    ELSE Settled(r, b)

\* the invocation r as it is recorded when it returns
Returned(r) ==
    [r EXCEPT !.pc = "done", !.issued = 0, !.newerTurn = Undefined]

\* inv without its i-th invocation, which returns as r
Return(i, r) ==
    /\ inv' = [k \in 1..(Len(inv) - 1) |-> Settled(IF k < i THEN inv[k] ELSE inv[k + 1], r)]
    /\ returned' = Returned(r)

\* Return of a fetchState caller whose response wrote turn to the cache
ReturnApplied(i, r, turn) ==
    /\ inv' = [k \in 1..(Len(inv) - 1) |->
                 Superseded(IF k < i THEN inv[k] ELSE inv[k + 1], r, turn)]
    /\ returned' = Returned(r)

Suspend(i, r) ==
    /\ inv' = [inv EXCEPT ![i] = r]
    /\ UNCHANGED returned

Start(r) ==
    /\ inv' = Append(inv, r)
    /\ clicks' = clicks + 1
    /\ UNCHANGED returned

StartClick ==
    /\ ClicksLeft
    /\ ~startBtn.disabled
    /\ IF ~state.running
       THEN /\ SetPage(stepHead(startHead(Page)))
            /\ Start(NewInvocation("start", "step_fetch"))
       ELSE UNCHANGED vars

StepClick ==
    /\ ClicksLeft
    /\ ~stepBtn.disabled
    /\ SetPage(stepHead(Page))
    /\ Start(NewInvocation("step", "step_fetch"))

ResetClick ==
    /\ ClicksLeft
    /\ ~resetBtn.disabled
    /\ UNCHANGED <<state, startBtn, stepBtn, resetBtn, view>>
    /\ Start(NewInvocation("reset", "reset_fetch"))

----------------------------------------------------------------------------
(* stepSimulation *)

\* fetch('/api/step') rejects
StepFetchFail(i) ==
    /\ IsStep(inv[i]) /\ inv[i].pc = "step_fetch"
    /\ SetPage(stepCatch(Page))
    /\ Return(i, [inv[i] EXCEPT !.caught = TRUE])
    /\ UNCHANGED clicks

\* fetch('/api/step') resolves; the handler awaits response.json()
StepFetchOk(i) ==
    /\ IsStep(inv[i]) /\ inv[i].pc = "step_fetch"
    /\ UNCHANGED <<state, startBtn, stepBtn, resetBtn, view>>
    /\ Suspend(i, [inv[i] EXCEPT !.pc = "step_json"])
    /\ UNCHANGED clicks

\* response.json() rejects
StepJsonFail(i) ==
    /\ IsStep(inv[i]) /\ inv[i].pc = "step_json"
    /\ SetPage(stepCatch(Page))
    /\ Return(i, [inv[i] EXCEPT !.caught = TRUE])
    /\ UNCHANGED clicks

\* StepJsonOk without the success test: the state fetch is always issued
StepJsonOk_AlwaysFetches(i, data) ==
    /\ IsStep(inv[i]) /\ inv[i].pc = "step_json"
    /\ UNCHANGED <<state, startBtn, stepBtn, resetBtn, view>>
    /\ Suspend(i, [inv[i] EXCEPT !.pc = "state_fetch", !.fetches = @ + 1,
                                  !.complete = data.complete])
    /\ UNCHANGED clicks

\* response.json() resolves with data
StepJsonOk(i, data) ==
    /\ IsStep(inv[i]) /\ inv[i].pc = "step_json"
    /\ IF data.success
       THEN /\ UNCHANGED <<state, startBtn, stepBtn, resetBtn, view>>
            /\ Suspend(i, [inv[i] EXCEPT !.pc = "state_fetch", !.fetches = @ + 1,
                                          !.issued = IssueNumber,
                                          !.success = TRUE, !.complete = data.complete])
       ELSE /\ SetPage(stepTail(Page, data.complete))
            /\ Return(i, [inv[i] EXCEPT !.complete = data.complete])
    /\ UNCHANGED clicks

----------------------------------------------------------------------------
(* resetSimulation *)

\* fetch('/api/reset') rejects
ResetFetchFail(i) ==
    /\ inv[i].kind = "reset" /\ inv[i].pc = "reset_fetch"
    /\ SetPage(resetCatch(Page))
    /\ Return(i, [inv[i] EXCEPT !.caught = TRUE])
    /\ UNCHANGED clicks

\* fetch('/api/reset') resolves; fetchState is called
ResetFetchOk(i) ==
    /\ inv[i].kind = "reset" /\ inv[i].pc = "reset_fetch"
    /\ UNCHANGED <<state, startBtn, stepBtn, resetBtn, view>>
    /\ Suspend(i, [inv[i] EXCEPT !.pc = "state_fetch", !.fetches = @ + 1,
                                  !.issued = IssueNumber])
    /\ UNCHANGED clicks

----------------------------------------------------------------------------
(* fetchState, called by init, stepSimulation and resetSimulation; when it *)
(* settles its caller resumes in the same turn of the event loop.          *)

\* fetch('/api/state') rejects
StateFetchFail(i) ==
    /\ inv[i].pc = "state_fetch"
    /\ SetPage(Resume(inv[i], FetchStateFailure(Page)))
    /\ Return(i, [inv[i] EXCEPT !.fetched = "failed"])
    /\ UNCHANGED clicks

\* fetch('/api/state') resolves; fetchState awaits response.json()
StateFetchOk(i) ==
    /\ inv[i].pc = "state_fetch"
    /\ UNCHANGED <<state, startBtn, stepBtn, resetBtn, view>>
    /\ Suspend(i, [inv[i] EXCEPT !.pc = "state_json"])
    /\ UNCHANGED clicks

\* response.json() rejects
StateJsonFail(i) ==
    /\ inv[i].pc = "state_json"
    /\ SetPage(Resume(inv[i], FetchStateFailure(Page)))
    /\ Return(i, [inv[i] EXCEPT !.fetched = "failed"])
    /\ UNCHANGED clicks

\* response.json() resolves with data
StateJsonOk(i, data) ==
    /\ inv[i].pc = "state_json"
    /\ SetPage(Resume(inv[i], FetchStateSuccess(Page, data)))
    /\ ReturnApplied(i, [inv[i] EXCEPT !.fetched = "ok"], ApplySnapshot(state, data).turn)
    /\ UNCHANGED clicks

----------------------------------------------------------------------------

Next ==
    \/ StartClick
    \/ StepClick
    \/ ResetClick
    \/ \E i \in 1..Len(inv) : StepFetchFail(i)
    \/ \E i \in 1..Len(inv) : StepFetchOk(i)
    \/ \E i \in 1..Len(inv) : StepJsonFail(i)
    \/ \E i \in 1..Len(inv), data \in StepResponses : StepJsonOk(i, data)
    \/ \E i \in 1..Len(inv) : ResetFetchFail(i)
    \/ \E i \in 1..Len(inv) : ResetFetchOk(i)
    \/ \E i \in 1..Len(inv) : StateFetchFail(i)
    \/ \E i \in 1..Len(inv) : StateFetchOk(i)
    \/ \E i \in 1..Len(inv) : StateJsonFail(i)
    \/ \E i \in 1..Len(inv), data \in Snapshots : StateJsonOk(i, data)

Spec == Init /\ [][Next]_vars

----------------------------------------------------------------------------
(* Vocabulary of the properties *)

\* an invocation returns in this step; returned' is that invocation
Returns == Len(inv') < Len(inv)

StepReturns == Returns /\ IsStep(returned')

ResetReturns == Returns /\ returned'.kind = "reset"

\* the five fields of the cache that fetchState writes
Snapshot(st) ==
    [map |-> st.map, characters |-> st.characters, items |-> st.items,
     events |-> st.events, turn |-> st.turn]

RosterNames(characters) == {characters[i].name : i \in 1..Len(characters)}

\* the control bar as the page starts and as a completed reset leaves it
IdleFresh ==
    /\ ~state.running
    /\ ~startBtn.disabled
    /\ stepBtn.disabled
    /\ resetBtn.disabled

\* stepSimulation invocations that have not returned
AdvancesInFlight == {i \in 1..Len(inv) : IsStep(inv[i])}

----------------------------------------------------------------------------
\* C1: at most one turn-advance (stepSimulation) is in flight at any time: a
\* second advance is never dispatched before the previous advance and its
\* follow-up state fetch have settled.
C1_OneAdvanceInFlight == Cardinality(AdvancesInFlight) <= 1

\* C2: once a response with complete = true has been processed (the start
\* control carries the finished mark, which only a completed reset removes),
\* the start and the step control are both disabled.
C2_TerminalStaysLocked ==
    startBtn.finished => startBtn.disabled /\ stepBtn.disabled

\* C3: an invocation of stepSimulation answered {success: true, complete:
\* false} has issued exactly one state fetch when it returns, and the step
\* control is enabled at that moment.
C3_StepRefreshesOnceAndRearms ==
    [][ StepReturns /\ returned'.success /\ ~returned'.complete
          => returned'.fetches = 1 /\ ~stepBtn'.disabled ]_vars

C3_Witness ==
    /\ IsStep(returned) /\ returned.success /\ ~returned.complete
    /\ returned.fetches = 1 /\ returned.fetched = "ok"
    /\ ~stepBtn.disabled

----------------------------------------------------------------------------
C5_IdleUntilStart ==
    [][ /\ ResetReturns /\ ~returned'.caught => IdleFresh'
        /\ IdleFresh /\ ~state'.running => IdleFresh' ]_vars

\* C6: when fetchState fails (the request or the decoding of its response),
\* map, characters, items, events and turn are what they were before, and
\* the caller carries on after its await instead of entering its catch block.
C6_FailedFetchKeepsCache ==
    [][ Returns /\ returned'.fetched = "failed"
          => /\ Snapshot(state') = Snapshot(state)
             /\ ~returned'.caught
             /\ returned'.kind = "init" => state'.initialized
             /\ returned'.kind = "reset" => IdleFresh' /\ eventLog' = <<>>
             /\ IsStep(returned') => stepBtn'.disabled = returned'.complete ]_vars

C6_Witness ==
    /\ returned.fetched = "failed" /\ returned.kind = "reset"
    /\ state.turn > 0 /\ state.characters # <<>>

\* what a response body stands for once each missing field took its default
Defaulted(data) ==
    [map        |-> IF "map" \in data.has THEN data.map ELSE <<>>,
     characters |-> IF "characters" \in data.has THEN data.characters ELSE <<>>,
     items      |-> IF "items" \in data.has THEN data.items ELSE <<>>,
     events     |-> IF "events" \in data.has THEN data.events ELSE <<>>,
     turn       |-> IF "turn" \in data.has THEN data.turn ELSE 0]

\* C7: in every state a handler or a renderer can observe, the five cached
\* fields are those of one response, missing fields defaulted (or the
\* initial ones), never a mix of two; the turn display shows the cached turn
\* and the event log, unless wiped, is the rendering of the cached events.
C7_CacheIsOneSnapshot ==
    /\ \/ Snapshot(state) = Snapshot(InitialState)
       \/ \E data \in Snapshots : Snapshot(state) = Defaulted(data)
    /\ turnCount = state.turn
    /\ eventLog # <<>> => Len(eventLog) = Len(state.events)

C7_Witness ==
    /\ state.turn = 3 /\ state.map = <<>> /\ state.characters = <<>>
    /\ nextElement > 1
    /\ returned.fetched = "ok"

\* C8: a stepSimulation whose advance request fails (request or decoding)
\* returns with the step control enabled, has made no state fetch, and
\* leaves the start control (enablement, label, finished mark) and the
\* state object, running included, as they were.
C8_FailedStepRearms ==
    [][ StepReturns /\ returned'.caught
          => /\ ~stepBtn'.disabled
             /\ returned'.fetches = 0
             /\ UNCHANGED <<startBtn, state, resetBtn>> ]_vars

C8_Witness ==
    /\ IsStep(returned) /\ returned.caught /\ returned.fetches = 0
    /\ ~stepBtn.disabled /\ state.running /\ startBtn.disabled

\* C9: a name that has an element and is in the roster after a step keeps
\* that same element, and an element is created only for a name that had
\* none: no poll, and not the wipe of init's renderMap, makes a second one.
C9_ElementIdentityStable ==
    [][ /\ \A n \in DOMAIN agentElements :
              n \in RosterNames(state'.characters)
                => n \in DOMAIN agentElements' /\ agentElements'[n] = agentElements[n]
        /\ nextElement' - nextElement
              = Cardinality(DOMAIN agentElements' \ DOMAIN agentElements) ]_vars

C9_Witness ==
    /\ state.initialized /\ state.turn = 1
    /\ DOMAIN agentElements = {"Zhang", "Hong"}
    /\ agentElements["Zhang"] = 1 /\ agentElements["Hong"] = 2
    /\ mapGrid.agents = {1, 2}
    /\ elements[1].left # elements[2].left

\* C10: a poll destroys the element of every tracked name its roster lacks
\* and removes that key only; every other tracked name keeps its entry and
\* its element.  After every step the registry's keys are names of the
\* cached roster, and the live elements are exactly the registered ones.
C10_RemovesExactlyTheAbsent ==
    [][ /\ \A n \in DOMAIN agentElements :
              IF n \in RosterNames(state'.characters)
              THEN /\ n \in DOMAIN agentElements'
                   /\ agentElements'[n] = agentElements[n]
                   /\ agentElements[n] \in DOMAIN elements'
              ELSE /\ n \notin DOMAIN agentElements'
                   /\ agentElements[n] \notin DOMAIN elements'
                   /\ agentElements[n] \notin mapGrid'.agents
        /\ DOMAIN agentElements' \subseteq RosterNames(state'.characters)
        /\ DOMAIN elements' = {agentElements'[n] : n \in DOMAIN agentElements'} ]_vars

C10_Witness ==
    /\ DOMAIN agentElements = {"Zhang"}
    /\ nextElement = 3
    /\ DOMAIN elements = {agentElements["Zhang"]}
    /\ RosterNames(state.characters) = {"Zhang", "Li"}

----------------------------------------------------------------------------
(* The scene under polls that answer: the page after init and a run of     *)
(* advances, every request answered, the rosters drawn from the placings   *)
(* of the scene's names on map locations and one unknown location.         *)

SceneNames == <<"Zhang", "Hong", "Li">>

\* where the k-th name may be: the first one moves between two cells
SceneLocations(k) ==
    IF k = 1 THEN {"Lobby", "Office", "Cellar", "absent"} ELSE {"Lobby", "Cellar", "absent"}

RECURSIVE RosterOf(_, _)
\* the roster that lists, in the order of SceneNames from k on, the names f places
RosterOf(f, k) ==
    IF k > Len(SceneNames) THEN <<>>
    ELSE IF f[k] = "absent" THEN RosterOf(f, k + 1)
    ELSE <<[name |-> SceneNames[k], location |-> f[k], status |-> None]>> \o RosterOf(f, k + 1)

SceneSnapshots ==
    { [has |-> {"map", "characters"},
       map |-> <<Lobby, Office>>,
       characters |-> RosterOf(f, 1),
       items |-> <<>>, events |-> <<>>, turn |-> 0] :
      f \in {g \in [1..Len(SceneNames) -> {"Lobby", "Office", "Cellar", "absent"}] :
                  \A k \in 1..Len(SceneNames) : g[k] \in SceneLocations(k)} }

NextScene ==
    \/ StartClick
    \/ StepClick
    \/ \E i \in 1..Len(inv) : StepFetchOk(i)
    \/ \E i \in 1..Len(inv) : StepJsonOk(i, [success |-> TRUE, complete |-> FALSE])
    \/ \E i \in 1..Len(inv) : StateFetchOk(i)
    \/ \E i \in 1..Len(inv), data \in SceneSnapshots : StateJsonOk(i, data)

SpecScene == Init /\ [][NextScene]_vars

----------------------------------------------------------------------------
\* the roster without the characters whose location the map does not name
ResolvedOnly(st) ==
    LET keep == {k \in 1..Len(st.characters) : HasLocation(st.map, st.characters[k].location)}
        F[k \in 0..Len(st.characters)] ==
            IF k = 0 THEN <<>>
            ELSE IF k \in keep THEN Append(F[k - 1], st.characters[k]) ELSE F[k - 1]
    IN  F[Len(st.characters)]

\* where a character stands when only the characters of roster are grouped
ExpectedLeft(map, roster, c) ==
    LET group == SelectSeq(roster, LAMBDA d : d.location = c.location)
        n     == Len(group)
        i     == CHOOSE j \in 1..n : group[j].name = c.name
    IN  20 + Coords(map, c.location)[1] * 210 + (IF n > 1 THEN (2 * (i - 1) - (n - 1)) * 20 ELSE 0)

\* C11: after every step, a character of the roster whose location is not
\* a key of the cached map has no element unless it had one before, and an
\* element it had is the same one, unmoved and unchanged; every character
\* with a resolved location has an element placed where it would stand if
\* the roster held the resolved characters only.
C11_UnresolvedSkipped ==
    [][ \A k \in 1..Len(state'.characters) :
          LET c == state'.characters[k]
          IN  IF HasLocation(state'.map, c.location)
              THEN /\ c.name \in DOMAIN agentElements'
                   /\ elements'[agentElements'[c.name]].left
                        = ExpectedLeft(state'.map, ResolvedOnly(state'), c)
                   /\ agentElements'[c.name] \in mapGrid'.agents
              ELSE IF c.name \in DOMAIN agentElements
                   THEN /\ c.name \in DOMAIN agentElements'
                        /\ agentElements'[c.name] = agentElements[c.name]
                        /\ elements'[agentElements'[c.name]] = elements[agentElements[c.name]]
                   ELSE c.name \notin DOMAIN agentElements' ]_vars

C11_Witness ==
    /\ RosterNames(state.characters) = {"Zhang", "Hong", "Li"}
    /\ \A k \in 1..3 : state.characters[k].location = (IF k = 2 THEN "Lobby" ELSE "Cellar")
    /\ DOMAIN agentElements = {"Zhang", "Hong"}
    /\ elements[agentElements["Zhang"]].left = 230
    /\ elements[agentElements["Hong"]].left = 20

----------------------------------------------------------------------------
\* the item tokens on the grid, each with the coordinate of its container
RenderedItems(grid) ==
    UNION { {<<c, grid.items[c][i].title>> : i \in 1..Len(grid.items[c])} :
            c \in DOMAIN grid.items }

\* the cached items whose location the cached map names, each with its coordinate
ResolvedItems(st) ==
    {<<Coords(st.map, st.items[i].location), st.items[i].name>> :
        i \in {j \in 1..Len(st.items) : HasLocation(st.map, st.items[j].location)}}

\* the grid shows the cached map and the cached items
GridIsCurrent(st, grid) ==
    /\ grid.cells = (IF st.map = <<>> THEN <<>> ELSE MapCells(st.map))
    /\ RenderedItems(grid) = ResolvedItems(st)

\* C12: when a handler returns after a successful state fetch (init, a
\* step, a reset), the rendered cells are those of the cached map and the
\* rendered items are exactly the cached items whose location resolves.
C12_GridRebuiltOnEveryUpdate ==
    [][ Returns /\ returned'.fetched = "ok" => GridIsCurrent(state', mapGrid') ]_vars

----------------------------------------------------------------------------
\* C13: the maxY used to position agents is the largest y of the cached
\* map: every character of the roster with a resolved location has its
\* element at top = padding + (maxY of the cached map - y) * (cell + gap),
\* and a gridMaxY that is set equals the largest y of the cached map.
C13_MaxYFollowsMap ==
    /\ \A k \in 1..Len(state.characters) :
          LET c == state.characters[k]
          IN  HasLocation(state.map, c.location)
                => /\ c.name \in DOMAIN agentElements
                   /\ elements[agentElements[c.name]].top
                        = 20 + (MaxOf(state.map, "y") - Coords(state.map, c.location)[2]) * 210
    /\ state.map # <<>> => PositionMaxY(state) = MaxOf(state.map, "y")

----------------------------------------------------------------------------
(* The grid init draws: the page through init alone, its state fetch       *)
(* answered with every map of up to MaxLocations entries at coordinates    *)
(* up to (MaxGridX, MaxGridY).  The third name is the empty string.        *)

MaxLocations == 3
MaxGridX == 2
MaxGridY == 1

GridNames == <<"Lobby", "Office", "", "Roof", "Yard">>

GridMaps ==
    UNION { { [k \in 1..n |-> [name |-> GridNames[k], x |-> xs[k], y |-> ys[k]]] :
                xs \in [1..n -> 0..MaxGridX], ys \in [1..n -> 0..MaxGridY] } :
            n \in 0..MaxLocations }

GridSnapshots ==
    { [has |-> {"map"}, map |-> m, characters |-> <<>>, items |-> <<>>,
       events |-> <<>>, turn |-> 0] : m \in GridMaps }

NextGrid ==
    \/ \E i \in 1..Len(inv) : StateFetchOk(i)
    \/ \E i \in 1..Len(inv), data \in GridSnapshots : StateJsonOk(i, data)

SpecGrid == Init /\ [][NextGrid]_vars

\* the largest value of coordinate c in a non-empty map
Largest(map, c) ==
    CHOOSE v \in {map[i][c] : i \in 1..Len(map)} : \A j \in 1..Len(map) : map[j][c] <= v

\* the entries of the map at a coordinate
EntriesAt(map, x, y) == {i \in 1..Len(map) : map[i].x = x /\ map[i].y = y}

LabelledCells(cells) == {k \in 1..Len(cells) : ~cells[k].empty}

\* the cells are the (maxX+1)*(maxY+1) coordinates, rows from maxY down, columns from 0 up
CellsInOrder(map, cells) ==
    LET maxX == Largest(map, "x")
        maxY == Largest(map, "y")
    IN  /\ Len(cells) = (maxX + 1) * (maxY + 1)
        /\ cells[1].x = 0 /\ cells[1].y = maxY
        /\ \A k \in 1..(Len(cells) - 1) :
              IF cells[k].x < maxX
              THEN cells[k + 1].x = cells[k].x + 1 /\ cells[k + 1].y = cells[k].y
              ELSE cells[k + 1].x = 0 /\ cells[k + 1].y = cells[k].y - 1

\* C14 as claimed: for every map with N >= 1 uniquely named locations,
\* renderMap emits the (maxX+1)*(maxY+1) cells in order and exactly N of
\* them carry a label, the map's name for the cell's coordinate.
C14_OneLabelPerLocation ==
    state.initialized /\ Len(state.map) >= 1
      => /\ CellsInOrder(state.map, mapGrid.cells)
         /\ Cardinality(LabelledCells(mapGrid.cells)) = Len(state.map)
         /\ \A i \in 1..Len(state.map) :
               \E k \in LabelledCells(mapGrid.cells) :
                  /\ mapGrid.cells[k].x = state.map[i].x
                  /\ mapGrid.cells[k].y = state.map[i].y
                  /\ mapGrid.cells[k].name = state.map[i].name

\* C14 amended: for every map with N >= 1 uniquely named locations,
\* renderMap emits the (maxX+1)*(maxY+1) cells in order; a cell carries a
\* label exactly when the last entry at its coordinate has a non-empty name,
\* and the label is that name.  The labelled cells are N, one per location,
\* when the coordinates are pairwise distinct and no name is empty.
C14_LabelPerCoordinate ==
    state.initialized /\ Len(state.map) >= 1
      => /\ CellsInOrder(state.map, mapGrid.cells)
         /\ \A k \in 1..Len(mapGrid.cells) :
               LET cell == mapGrid.cells[k]
                   at   == EntriesAt(state.map, cell.x, cell.y)
                   last == CHOOSE i \in at : \A j \in at : j <= i
               IN  IF at # {} /\ state.map[last].name # ""
                   THEN ~cell.empty /\ cell.name = state.map[last].name
                   ELSE cell.empty
         /\ ( /\ \A i, j \in 1..Len(state.map) :
                    i # j => EntriesAt(state.map, state.map[i].x, state.map[i].y) = {i}
              /\ \A i \in 1..Len(state.map) : state.map[i].name # "" )
              => Cardinality(LabelledCells(mapGrid.cells)) = Len(state.map)

C14_Witness ==
    /\ state.initialized /\ Len(state.map) = 2
    /\ state.map[1].x = 2 /\ state.map[1].y = 0
    /\ state.map[2].x = 0 /\ state.map[2].y = 1
    /\ Len(mapGrid.cells) = 6
    /\ Cardinality(LabelledCells(mapGrid.cells)) = 2
    /\ mapGrid.cells[1].name = "Office" /\ mapGrid.cells[6].name = "Lobby"

----------------------------------------------------------------------------
MaxGroup == 5

\* the roster characters at a location, in roster order
GroupAt(st, location) == SelectSeq(st.characters, LAMBDA c : c.location = location)

\* the horizontal offset a character's element has from its cell's left edge
OffsetOf(st, char) ==
    elements[agentElements[char.name]].left
      - (20 + Coords(st.map, char.location)[1] * 210)

\* C15: in every group of n >= 2 roster characters at one resolved location
\* the elements' horizontal offsets are pairwise distinct and symmetric
\* around 0 (index i mirrors index n-1-i), -20 and +20 for n = 2 and
\* -40, 0, +40 for n = 3; a character alone at its location has offset 0.
\* The offset formula is symmetric and injective for every group size up
\* to MaxGroup.
C15_OffsetsSymmetric ==
    /\ \A location \in MapNames(state.map) :
          LET group == GroupAt(state, location)
              n     == Len(group)
              off(i) == OffsetOf(state, group[i])
          IN  /\ \A i \in 1..n : group[i].name \in DOMAIN agentElements
              /\ \A i \in 1..n : off(i) = -off(n + 1 - i)
              /\ \A i, j \in 1..n : i # j => off(i) # off(j)
              /\ n = 1 => off(1) = 0
              /\ n = 2 => off(1) = -20 /\ off(2) = 20
              /\ n = 3 => off(1) = -40 /\ off(2) = 0 /\ off(3) = 40
    /\ \A n \in 1..MaxGroup : \A i, j \in 0..(n - 1) :
          /\ GroupOffset(i, n) = -GroupOffset(n - 1 - i, n)
          /\ i < j => GroupOffset(j, n) - GroupOffset(i, n) = (j - i) * 40

C15_Witness ==
    /\ Len(GroupAt(state, "Lobby")) = 3
    /\ elements[agentElements["Zhang"]].left = -20
    /\ elements[agentElements["Hong"]].left = 20
    /\ elements[agentElements["Li"]].left = 60

----------------------------------------------------------------------------
(* The event log over events of every shape: the page loads and its state  *)
(* fetch is answered with a log of one event whose action, arguments and   *)
(* override fields are drawn independently.                                *)

EventActions == DialogueActions \cup MoveActions \cup {"itemInteract", "wait"}

Events ==
    { [actor |-> actor, action |-> action,
       args |-> [target |-> target, content |-> content,
                 direction |-> direction, inner |-> None],
       new_location |-> new_location, target_override |-> target_override] :
      actor \in {None, "Zhang"}, action \in EventActions,
      target \in {None, "Hong"}, content \in {None, "hi"},
      direction \in {None, "north"}, new_location \in {None, "Office"},
      target_override \in {None, "Li"} }

EventSnapshots ==
    { [has |-> {"events"}, map |-> <<>>, characters |-> <<>>, items |-> <<>>,
       events |-> <<event>>, turn |-> 0] : event \in Events }

NextEvents ==
    \/ \E i \in 1..Len(inv) : StateFetchOk(i)
    \/ \E i \in 1..Len(inv), data \in EventSnapshots : StateJsonOk(i, data)

SpecEvents == Init /\ [][NextEvents]_vars

\* the pieces of a rendered description
Shown(item) == {item.body[k] : k \in 1..Len(item.body)}

\* C16: in the log, an event's override field is shown in place of the
\* args entry when both are present: a movement event shows new_location
\* and not the direction, a dialogue event shows target_override and not
\* the args target.
C16_OverridePreferred ==
    Len(eventLog) = Len(state.events)
      => \A k \in 1..Len(eventLog) :
          LET event == state.events[k]
          IN  /\ ( /\ event.action \in MoveActions
                   /\ event.new_location # None /\ event.args.direction # None )
                   => /\ event.new_location \in Shown(eventLog[k])
                      /\ event.args.direction \notin Shown(eventLog[k])
              /\ ( /\ event.action \in DialogueActions
                   /\ event.target_override # None /\ event.args.target # None )
                   => /\ event.target_override \in Shown(eventLog[k])
                      /\ event.args.target \notin Shown(eventLog[k])

\* C17: every logged event has exactly one of the three classes, dialogue
\* or movement exactly when its action is in the respective action set and
\* system otherwise; a speak event with a target and a content argument
\* shows both; a dialogue event with another action never shows the content.
C17_ClassAndContent ==
    /\ Len(eventLog) = Len(state.events)
    /\ \A k \in 1..Len(state.events) :
          LET event == state.events[k]
              item  == eventLog[k]
          IN  /\ item.className \in {"type-dialogue", "type-move", "type-system"}
              /\ item.className = "type-dialogue" <=> event.action \in DialogueActions
              /\ item.className = "type-move" <=> event.action \in MoveActions
              /\ item.className = "type-system"
                    <=> event.action \notin DialogueActions \cup MoveActions
              /\ ( /\ event.action = "speak"
                   /\ event.args.target # None /\ event.args.content # None )
                   => {event.args.target, event.args.content} \subseteq Shown(item)
              /\ ( /\ event.action \in DialogueActions \ {"speak"}
                   /\ event.args.content # None )
                   => event.args.content \notin Shown(item)

C17_Witness ==
    /\ Len(state.events) = 1 /\ Len(eventLog) = 1
    /\ state.events[1].action = "speak"
    /\ eventLog[1].className = "type-dialogue"
    /\ eventLog[1].body = <<"speak", "->", "Hong", ":", "hi">>

----------------------------------------------------------------------------
\* the pending invocations dispatched by one intent
PendingOf(kind) == {i \in 1..Len(inv) : inv[i].kind = kind}

\* C18: no two invocations dispatched by the same intent (start, step,
\* reset) are pending at once, and while an invocation of an intent is
\* pending the control of that intent is disabled.
C18_NoReentry ==
    /\ \A kind \in {"start", "step", "reset"} : Cardinality(PendingOf(kind)) <= 1
    /\ PendingOf("start") # {} => startBtn.disabled
    /\ PendingOf("step") # {} => stepBtn.disabled
    /\ PendingOf("reset") # {} => resetBtn.disabled

\* an invocation of stepSimulation waits for its state fetch
AwaitsState(r) == r.pc \in {"state_fetch", "state_json"}

\* C19: an invocation of stepSimulation waits for a state fetch only after
\* its advance response arrived with success = true, and it has issued one
\* state fetch exactly then; when it returns, its state fetch has settled
\* (succeeded or failed) if success was true and none was issued if success
\* was false or the request failed; no step that leaves every invocation
\* pending (a response arriving before the handler's last await) changes
\* the enablement of a control.
C19_FetchAfterSuccessThenRearm ==
    [][ /\ \A i \in 1..Len(inv') :
             IsStep(inv'[i]) =>
                /\ AwaitsState(inv'[i]) <=> inv'[i].success
                /\ inv'[i].fetches = (IF inv'[i].success THEN 1 ELSE 0)
        /\ StepReturns =>
             /\ returned'.fetches = (IF returned'.success THEN 1 ELSE 0)
             /\ returned'.success <=> returned'.fetched # "none"
             /\ returned'.caught => ~returned'.success
        /\ Len(inv') = Len(inv) =>
             /\ startBtn'.disabled = startBtn.disabled
             /\ stepBtn'.disabled = stepBtn.disabled
             /\ resetBtn'.disabled = resetBtn.disabled ]_vars

C19_Witness ==
    /\ returned.kind = "step" /\ returned.pc = "done"
    /\ returned.success /\ returned.complete
    /\ returned.fetches = 1 /\ returned.fetched = "failed"
    /\ stepBtn.disabled /\ startBtn.finished

\* C20: whenever no request is in flight, at least one of the start, step
\* and reset controls is enabled.
C20_ControlsNeverDeadlock ==
    inv = <<>> => ~startBtn.disabled \/ ~stepBtn.disabled \/ ~resetBtn.disabled

----------------------------------------------------------------------------
\* C21: when the last pending request settles by writing its state
\* response to the cache, the cache does not end on an earlier-issued
\* fetch: if a later-issued, overlapping state fetch has already written
\* its response, the cached turn (which identifies the response) stays
\* that of the later-issued fetch.
C21_CacheEndsOnNewest ==
    [][ /\ Len(inv) = 1 /\ inv' = <<>>
        /\ returned'.fetched = "ok"
        /\ inv[1].newerTurn # Undefined
        => state'.turn = inv[1].newerTurn ]_vars

====
